---- MODULE Spec2Model ----
(***************************************************************************)
(* A model of the a2xx shader assembler of fdre/asm/ir.c: the IR           *)
(* construction calls (ir_cf_create, ir_instr_create, ir_reg_create), the  *)
(* resolver, the CF-pair emitter, the FETCH/ALU emitters with the register *)
(* statistics, and ir_shader_assemble which runs them.                     *)
(*                                                                         *)
(* A machine word is the set of its 1 bits; | and << are computed on bits   *)
(* (Or, Shl), not by addition, so overlapping fields would show.           *)
(***************************************************************************)
EXTENDS Integers, Sequences, FiniteSets, TLC

VARIABLES
    shader,     \* struct ir_shader: [cfs |-> sequence of clauses]
    called,     \* history: the shader as it was when ir_shader_assemble was entered
    dwords,     \* the caller's buffer: the sequence of 3-word slots written
    info,       \* struct ir_shader_info
    ret,        \* value returned by ir_shader_assemble
    pc          \* "build" | "done" (returned) | "abort" (an assert failed)

vars == <<shader, called, dwords, info, ret, pc>>

-----------------------------------------------------------------------------
(* Bounds of the model *)

\* clauses a front-end creates (the assembler may append one more)
MaxCfs == 2
\* instructions created in one clause
MaxInstrs == 2
\* instructions created in the whole shader
MaxTotalInstrs == 2
\* instructions of the register-statistics scenarios
MaxStatInstrs == 2

(* Program constants *)
REG_MASK == 63
ADDR_MASK == 4095
\* capacities of the arrays of ir.h (ARRAY_SIZE)
CfsCap == 64
InstrsCap == 6
RegsCap == 5
\* width of ir_shader_info.regs_written
RegsWrittenBits == 64

-----------------------------------------------------------------------------
(* uint32_t arithmetic.  A word of the output buffer is kept as the set of  *)
(* its 1 bits (positions 0..31); the operands the code shifts into a word   *)
(* and the accumulators of its loops are small naturals.                    *)

RECURSIVE Pow2(_)
Pow2(n) == IF n = 0 THEN 1 ELSE 2 * Pow2(n - 1)

\* the 1 bits of a natural, those of v at positions k and up
RECURSIVE BitsFrom(_, _)
BitsFrom(v, k) ==
    IF v = 0 THEN {}
    ELSE (IF v % 2 = 1 THEN {k} ELSE {}) \cup BitsFrom(v \div 2, k + 1)

BitsOf(v) == BitsFrom(v, 0)

\* (uint32_t)v << n, as a word: bits shifted past 31 are lost
Shl(v, n) == {b \in BitsFrom(v, n) : b <= 31}

\* a | b on words
Or(a, b) == a \cup b

\* x << n and a | b on the naturals of the loops
IShl(x, n) == x * Pow2(n)

RECURSIVE IOr(_, _)
IOr(a, b) ==
    IF a = 0 THEN b
    ELSE IF b = 0 THEN a
    ELSE (IF (a % 2) + (b % 2) > 0 THEN 1 ELSE 0) + 2 * IOr(a \div 2, b \div 2)

Bit(w, k) == IF k \in w THEN 1 ELSE 0

\* the value of bits lo .. lo+width-1 of a word (width <= 16)
RECURSIVE FieldSum(_, _, _)
FieldSum(w, lo, width) ==
    IF width = 0 THEN 0
    ELSE Bit(w, lo + width - 1) * Pow2(width - 1) + FieldSum(w, lo, width - 1)

Field(w, lo, width) == FieldSum(w, lo, width)

Max(a, b) == IF a >= b THEN a ELSE b

-----------------------------------------------------------------------------
(* The IR: tags, registers, instructions, clauses *)

CfTags == {"T_NOP", "T_EXEC", "T_EXEC_END", "T_ALLOC"}
InstrTags == {"T_FETCH", "T_ALU"}
FetchOpcs == {"T_VERTEX", "T_SAMPLE"}
\* a tag value outside its enum
T_BAD == "T_BAD"

IR_REG_CONST == "IR_REG_CONST"
IR_REG_EXPORT == "IR_REG_EXPORT"
IR_REG_NEGATE == "IR_REG_NEGATE"
IR_REG_ABS == "IR_REG_ABS"

\* a char* : NULL or a string, kept as its sequence of characters
NULL == [null |-> TRUE, chars |-> <<>>]
Str(s) == [null |-> FALSE, chars |-> s]

IsExec(cf) == cf.cf_type = "T_EXEC" \/ cf.cf_type = "T_EXEC_END"

\* the clause ir_cf_create makes: the heap is calloc'ed, so every other field is 0
NewCf(cf_type) ==
    [cf_type |-> cf_type, addr |-> 0, cnt |-> 0, sequence |-> 0, instrs |-> <<>>,
     size |-> 0, alloc_type |-> "T_NONE"]

NewInstr(instr_type) ==
    [instr_type |-> instr_type, sync |-> FALSE, opc |-> "T_NONE", constant |-> 0,
     sign |-> "T_NONE", fmt |-> 0, stride |-> 0,
     vector_opc |-> "T_NONE", scalar_opc |-> "T_NONE", regs |-> <<>>]

NewReg(num, swizzle, flags) == [num |-> num, swizzle |-> swizzle, flags |-> flags]

NewInfo == [max_reg |-> -1, max_input_reg |-> 0, regs_written |-> {}]

\* mutant: the new clause goes to the front of shader->cfs
ir_cf_create_Front(sh, cf_type) == [sh EXCEPT !.cfs = <<NewCf(cf_type)>> \o @]

ir_cf_create(sh, cf_type) == [sh EXCEPT !.cfs = Append(@, NewCf(cf_type))]

ir_instr_create(sh, c, instr) ==
    [sh EXCEPT !.cfs[c].instrs = Append(@, instr)]

ir_reg_create(sh, c, i, reg) ==
    [sh EXCEPT !.cfs[c].instrs[i].regs = Append(@, reg)]

-----------------------------------------------------------------------------
(* Register statistics *)

\* The bits of (1 << num) once converted to the type of regs_written. 1 is an
\* int: 1 << 31 is INT_MIN, which sign-extends; a shift by 32 or more is
\* undefined, and ub names what the build makes of it: "mod32" (the shift
\* count is taken modulo 32) or "zero" (the result is 0).
ShiftOutcomes == {"mod32", "zero"}

ShiftOne(num, ub) ==
    LET low(n) == IF n < 31 THEN {n} ELSE 31..(RegsWrittenBits - 1)
    IN  IF num < 32 THEN low(num)
        ELSE IF ub = "mod32" THEN low(num % 32)
        ELSE {}

\* mutant: a source operand raises max_input_reg whether or not the register
\* has been written
reg_update_stats_NoTest(reg, inf, dest, ub) ==
    IF reg.flags \cap {IR_REG_CONST, IR_REG_EXPORT} = {}
    THEN LET i1 == [inf EXCEPT !.max_reg = Max(@, reg.num)]
         IN  IF dest
             THEN [i1 EXCEPT !.regs_written = @ \cup ShiftOne(reg.num, ub)]
             ELSE [i1 EXCEPT !.max_input_reg = Max(@, reg.num)]
    ELSE inf

reg_update_stats(reg, inf, dest, ub) ==
    IF reg.flags \cap {IR_REG_CONST, IR_REG_EXPORT} = {}
    THEN LET i1 == [inf EXCEPT !.max_reg = Max(@, reg.num)]
             bits == ShiftOne(reg.num, ub)
         IN  IF dest
             THEN [i1 EXCEPT !.regs_written = @ \cup bits]
             ELSE IF i1.regs_written \cap bits = {}
                  THEN [i1 EXCEPT !.max_input_reg = Max(@, reg.num)]
                  ELSE i1
    ELSE inf

-----------------------------------------------------------------------------
(* Swizzle encoders *)

\* switch (reg->swizzle[i]) of reg_fetch_src_swiz: default falls into case 'x'
FetchSrcChan(c) ==
    CASE c = "x" -> 0 [] c = "y" -> 1 [] c = "z" -> 2 [] c = "w" -> 3 [] OTHER -> 0

\* switch (reg->swizzle[i]) of reg_fetch_dst_swiz: default falls into case 'x'
FetchDstChan(c) ==
    CASE c = "x" -> 0 [] c = "y" -> 1 [] c = "z" -> 2 [] c = "w" -> 3
      [] c = "0" -> 4 [] c = "1" -> 5 [] c = "_" -> 7 [] OTHER -> 0

\* the asserts at the head of each encoder
reg_fetch_src_swiz_ok(reg, n) ==
    reg.flags = {} /\ ~reg.swizzle.null /\ Len(reg.swizzle.chars) = n

reg_fetch_dst_swiz_ok(reg) ==
    reg.flags = {} /\ (reg.swizzle.null \/ Len(reg.swizzle.chars) = 4)

reg_alu_dst_swiz_ok(reg) ==
    reg.flags \ {IR_REG_EXPORT} = {} /\ (reg.swizzle.null \/ Len(reg.swizzle.chars) = 4)

reg_alu_src_swiz_ok(reg) ==
    IR_REG_EXPORT \notin reg.flags /\ (reg.swizzle.null \/ Len(reg.swizzle.chars) = 4)

\* the loops run i from the last character down to 0; chars[i + 1] is swizzle[i]
RECURSIVE FetchSrcLoop(_, _, _)
FetchSrcLoop(chars, i, swiz) ==
    IF i < 0 THEN swiz
    ELSE FetchSrcLoop(chars, i - 1, IOr(IShl(swiz, 2), FetchSrcChan(chars[i + 1])))

reg_fetch_src_swiz(reg, n) == FetchSrcLoop(reg.swizzle.chars, n - 1, 0)

\* mutant: the loop reads the string from its first character
RECURSIVE FetchDstLoop_Reversed(_, _, _)
FetchDstLoop_Reversed(chars, i, swiz) ==
    IF i < 0 THEN swiz
    ELSE FetchDstLoop_Reversed(chars, i - 1, IOr(IShl(swiz, 3), FetchDstChan(chars[4 - i])))

RECURSIVE FetchDstLoop(_, _, _)
FetchDstLoop(chars, i, swiz) ==
    IF i < 0 THEN swiz
    ELSE FetchDstLoop(chars, i - 1, IOr(IShl(swiz, 3), FetchDstChan(chars[i + 1])))

reg_fetch_dst_swiz(reg) ==
    IF ~reg.swizzle.null THEN FetchDstLoop(reg.swizzle.chars, 3, 0) ELSE 1672

\* "xyzw"[i]
Identity == <<"x", "y", "z", "w">>

RECURSIVE AluDstLoop(_, _, _)
AluDstLoop(chars, i, swiz) ==
    IF i < 0 THEN swiz
    ELSE LET s == IShl(swiz, 1)
         IN  IF chars[i + 1] = Identity[i + 1] THEN AluDstLoop(chars, i - 1, IOr(s, 1))
             ELSE IF chars[i + 1] # "_" THEN s      \* ERROR_MSG; break
             ELSE AluDstLoop(chars, i - 1, s)

reg_alu_dst_swiz(reg) ==
    IF ~reg.swizzle.null THEN AluDstLoop(reg.swizzle.chars, 3, 0) ELSE 15

RECURSIVE AluSrcLoop(_, _, _)
AluSrcLoop(chars, i, swiz) ==
    IF i < 0 THEN swiz
    ELSE AluSrcLoop(chars, i - 1,
                    IOr(IShl(swiz, 2), (FetchSrcChan(chars[i + 1]) + 4 - i) % 4))

reg_alu_src_swiz(reg) ==
    IF ~reg.swizzle.null THEN AluSrcLoop(reg.swizzle.chars, 3, 0) ELSE 0

-----------------------------------------------------------------------------
(* Resolver *)

\* mutant: the loop runs from the first instruction to the last
RECURSIVE SequenceLoop_Forward(_, _, _)
SequenceLoop_Forward(instrs, j, sequence) ==
    IF j < 0 THEN sequence
    ELSE LET instr == instrs[Len(instrs) - j]
             s0 == IShl(sequence, 2)
             s1 == IF instr.instr_type = "T_FETCH" THEN IOr(s0, 1) ELSE s0
             s2 == IF instr.sync THEN IOr(s1, 2) ELSE s1
         IN  SequenceLoop_Forward(instrs, j - 1, s2)

RECURSIVE SequenceLoop(_, _, _)
SequenceLoop(instrs, j, sequence) ==
    IF j < 0 THEN sequence
    ELSE LET s0 == IShl(sequence, 2)
             s1 == IF instrs[j + 1].instr_type = "T_FETCH" THEN IOr(s0, 1) ELSE s0
             s2 == IF instrs[j + 1].sync THEN IOr(s1, 2) ELSE s1
         IN  SequenceLoop(instrs, j - 1, s2)

\* the body of the loop over the clauses, from clause i (1-based) on
RECURSIVE ResolveLoop(_, _, _)
ResolveLoop(cfs, i, addr) ==
    IF i > Len(cfs) THEN cfs
    ELSE LET cf == cfs[i]
         IN  IF IsExec(cf)
             THEN LET n == Len(cf.instrs)
                      cf2 == [cf EXCEPT !.addr = addr, !.cnt = n,
                                        !.sequence = SequenceLoop(cf.instrs, n - 1, 0)]
                  IN  ResolveLoop([cfs EXCEPT ![i] = cf2], i + 1, addr + n)
             ELSE ResolveLoop(cfs, i + 1, addr)

\* mutant: the first address is the clause count, not the count of CF slots
shader_resolve_NoHalf(sh) == [sh EXCEPT !.cfs = ResolveLoop(@, 1, Len(@))]

shader_resolve(sh) == [sh EXCEPT !.cfs = ResolveLoop(@, 1, Len(@) \div 2)]

-----------------------------------------------------------------------------
(* CF emitter *)

\* mutant: the codes of EXEC and EXEC_END exchanged
cf_op_Swapped(cf) ==
    CASE cf.cf_type = "T_NOP" -> 0
      [] cf.cf_type = "T_EXEC" -> 2
      [] cf.cf_type = "T_EXEC_END" -> 1
      [] cf.cf_type = "T_ALLOC" -> 12
      [] OTHER -> 0

\* default: falls into case T_NOP
cf_op(cf) ==
    CASE cf.cf_type = "T_NOP" -> 0
      [] cf.cf_type = "T_EXEC" -> 1
      [] cf.cf_type = "T_EXEC_END" -> 2
      [] cf.cf_type = "T_ALLOC" -> 12
      [] OTHER -> 0

AllocNibble(cf) == IF cf.alloc_type = "T_COORD" THEN 2 ELSE 4

\* the asserts of one switch arm
CfAsserts(cf) ==
    /\ IsExec(cf) => cf.addr <= ADDR_MASK /\ cf.cnt <= 15 /\ cf.sequence <= 65535
    /\ cf.cf_type = "T_ALLOC" => cf.size <= ADDR_MASK

cf_emit_ok(cf1, cf2) == CfAsserts(cf1) /\ CfAsserts(cf2)

cf_emit(cf1, cf2) ==
    LET a1 == Or({}, Shl(cf_op(cf1), 12))
        a2 == Or({}, Shl(cf_op(cf2), 28))
        \* switch (cf1->cf_type)
        b0 == IF IsExec(cf1)
              THEN Or(Or(Or({}, Shl(cf1.addr, 0)), Shl(cf1.cnt, 12)), Shl(cf1.sequence, 16))
              ELSE IF cf1.cf_type = "T_ALLOC" THEN Or({}, Shl(cf1.size, 0))
              ELSE {}
        b1 == IF cf1.cf_type = "T_ALLOC" THEN Or(a1, Shl(AllocNibble(cf1), 8)) ELSE a1
        \* switch (cf2->cf_type)
        c1 == IF IsExec(cf2)
              THEN Or(Or(b1, Shl(cf2.addr, 16)), Shl(cf2.cnt, 28))
              ELSE IF cf2.cf_type = "T_ALLOC" THEN Or(b1, Shl(cf2.size, 16))
              ELSE b1
        c2 == IF IsExec(cf2) THEN Or(a2, Shl(cf2.sequence, 0))
              ELSE IF cf2.cf_type = "T_ALLOC" THEN Or(a2, Shl(AllocNibble(cf2), 24))
              ELSE a2
    IN  <<b0, c1, c2>>

-----------------------------------------------------------------------------
(* Instruction emitters.  Each returns [w, alu, info, ret, ok]: the three    *)
(* words (FETCH) or the fields of the instr_alu_t record laid over them     *)
(* (ALU), the statistics, the return code, and ok = no assert failed.       *)

\* default: falls into case T_SAMPLE
instr_fetch_opc(instr) ==
    CASE instr.opc = "T_SAMPLE" -> 1 [] instr.opc = "T_VERTEX" -> 0 [] OTHER -> 1

instr_emit_fetch(instr, idx, inf, ub) ==
    LET dst_reg == instr.regs[1]
        src_reg == instr.regs[2]
        i1 == reg_update_stats(dst_reg, inf, TRUE, ub)
        i2 == reg_update_stats(src_reg, i1, FALSE, ub)
        a0 == Or(Or(Or(Or({}, Shl(instr_fetch_opc(instr), 0)), Shl(src_reg.num, 5)),
                    Shl(dst_reg.num, 12)), Shl(instr.constant, 20))
        a1 == Or({}, Shl(reg_fetch_dst_swiz(dst_reg), 0))
        vertex == instr.opc = "T_VERTEX"
        \* if (instr->fetch.opc == T_VERTEX)
        v0 == Or(Or(Or(Or(Or(a0, Shl(reg_fetch_src_swiz(src_reg, 1), 25)),
                          Shl(1, 19)), Shl(1, 24)), Shl(1, 28)),
                 Shl(IF idx > 0 THEN 0 ELSE 1, 27))
        v1 == Or(Or(Or(Or(a1, Shl(IF instr.sign = "T_SIGNED" THEN 1 ELSE 0, 12)),
                       Shl(instr.fmt, 16)), Shl(1, 13)),
                 Shl(IF idx > 0 THEN 1 ELSE 0, 30))
        v2 == Or({}, Shl(instr.stride, 0))
        \* else
        s0 == Or(a0, Shl(reg_fetch_src_swiz(src_reg, 3), 26))
        s1 == Or(a1, Shl(131071, 12))
        s2 == Or({}, Shl(1, 1))
        ok == /\ instr.constant <= 15
              /\ reg_fetch_dst_swiz_ok(dst_reg)
              /\ IF vertex
                 THEN instr.stride <= 255 /\ instr.fmt <= 63
                      /\ reg_fetch_src_swiz_ok(src_reg, 1)
                 ELSE reg_fetch_src_swiz_ok(src_reg, 3)
    IN  [w |-> IF ~ok THEN <<>> ELSE IF vertex THEN <<v0, v1, v2>> ELSE <<s0, s1, s2>>,
         alu |-> <<>>, info |-> i2, ret |-> 0, ok |-> ok]

B(p) == IF p THEN 1 ELSE 0

\* the fields set from one source operand
SrcFields(reg) ==
    [reg |-> reg.num, swiz |-> reg_alu_src_swiz(reg),
     reg_negate |-> B(IR_REG_NEGATE \in reg.flags),
     reg_abs |-> B(IR_REG_ABS \in reg.flags),
     sel |-> B(IR_REG_CONST \notin reg.flags)]

\* memset(alu, 0, sizeof(*alu))
NoSrc == [reg |-> 0, swiz |-> 0, reg_negate |-> 0, reg_abs |-> 0, sel |-> 0]

instr_emit_alu(instr, inf, ub) ==
    LET muladd == instr.vector_opc = "T_MULADDv"
        scalar == instr.scalar_opc # "T_NONE"
        dst_reg == instr.regs[1]
        \* reg counts the operands taken so far
        r0 == IF muladd THEN 2 ELSE 1
        src1_reg == instr.regs[r0 + 1]
        src2_reg == instr.regs[r0 + 2]
        i1 == reg_update_stats(dst_reg, inf, TRUE, ub)
        i2 == reg_update_stats(src1_reg, i1, FALSE, ub)
        i3 == reg_update_stats(src2_reg, i2, FALSE, ub)
        sdst_reg == instr.regs[r0 + 3]
        i4 == IF scalar THEN reg_update_stats(sdst_reg, i3, TRUE, ub) ELSE i3
        \* src3: the second operand (MULADDv), else the one after sdst (scalar)
        has3 == muladd \/ scalar
        src3_reg == IF muladd THEN instr.regs[2] ELSE instr.regs[r0 + 4]
        i5 == IF has3 THEN reg_update_stats(src3_reg, i4, FALSE, ub) ELSE i4
        ok == /\ dst_reg.flags \ {IR_REG_EXPORT} = {}
              /\ dst_reg.swizzle.null \/ Len(dst_reg.swizzle.chars) = 4
              /\ reg_alu_dst_swiz_ok(dst_reg)
              /\ reg_alu_src_swiz_ok(src1_reg)
              /\ reg_alu_src_swiz_ok(src2_reg)
              /\ scalar => /\ sdst_reg.flags = dst_reg.flags
                           /\ reg_alu_dst_swiz_ok(sdst_reg)
                           \* assert(src3_reg == instr->regs[reg++]): regs[1] and
                           \* regs[5] come from two ir_reg_create calls, so the
                           \* pointers differ
                           /\ ~muladd
              /\ has3 => reg_alu_src_swiz_ok(src3_reg)
        rec == [vector_dest |-> dst_reg.num,
                export_data |-> B(IR_REG_EXPORT \in dst_reg.flags),
                vector_write_mask |-> reg_alu_dst_swiz(dst_reg),
                vector_opc |-> instr.vector_opc,
                src1 |-> SrcFields(src1_reg),
                src2 |-> SrcFields(src2_reg),
                src3 |-> IF has3 THEN SrcFields(src3_reg) ELSE [NoSrc EXCEPT !.sel = 1],
                scalar_dest |-> IF scalar THEN sdst_reg.num ELSE 0,
                scalar_write_mask |-> IF scalar THEN reg_alu_dst_swiz(sdst_reg) ELSE 0,
                scalar_opc |-> IF scalar THEN instr.scalar_opc ELSE "MAXs"]
    IN  [w |-> <<>>, alu |-> IF ok THEN rec ELSE <<>>, info |-> i5, ret |-> 0, ok |-> ok]

instr_emit(instr, idx, inf, ub) ==
    CASE instr.instr_type = "T_FETCH" -> instr_emit_fetch(instr, idx, inf, ub)
      [] instr.instr_type = "T_ALU" -> instr_emit_alu(instr, inf, ub)
      [] OTHER -> [w |-> <<>>, alu |-> <<>>, info |-> inf, ret |-> -1, ok |-> TRUE]

\* the operands an emitter reads from instr->regs
NeedRegs(instr) ==
    CASE instr.instr_type = "T_FETCH" -> 2
      [] instr.instr_type = "T_ALU" ->
            3 + B(instr.vector_opc = "T_MULADDv") + 2 * B(instr.scalar_opc # "T_NONE")
      [] OTHER -> 0

-----------------------------------------------------------------------------
(* ir_shader_assemble *)

\* the instructions of the EXEC/EXEC_END clauses, in the order of the third pass
RECURSIVE ExecInstrs(_, _)
ExecInstrs(cfs, i) ==
    IF i > Len(cfs) THEN <<>>
    ELSE (IF IsExec(cfs[i])
          THEN [j \in 1..Len(cfs[i].instrs) |-> [cf |-> i, ins |-> j, instr |-> cfs[i].instrs[j]]]
          ELSE <<>>) \o ExecInstrs(cfs, i + 1)

\* mutant: the second pass steps by one clause (i++ for i += 2)
CfPass_PerClause(cfs) ==
    [k \in 1..Len(cfs) |->
        [kind |-> "cf", cf |-> k, ins |-> 0,
         w |-> cf_emit(cfs[k], cfs[IF k < Len(cfs) THEN k + 1 ELSE k]), alu |-> <<>>]]

\* second pass: one slot per pair of clauses
CfPass(cfs) ==
    [k \in 1..(Len(cfs) \div 2) |->
        [kind |-> "cf", cf |-> 2 * k - 1, ins |-> 0,
         w |-> cf_emit(cfs[2 * k - 1], cfs[2 * k]), alu |-> <<>>]]

CfPassOk(cfs) ==
    \A k \in 1..(Len(cfs) \div 2) : cf_emit_ok(cfs[2 * k - 1], cfs[2 * k])

\* third pass from the k-th instruction on; st = [dwords, info, idx, ret, ok]
RECURSIVE InstrPass(_, _, _, _)
InstrPass(list, k, st, ub) ==
    IF k > Len(list) THEN st
    ELSE LET e == instr_emit(list[k].instr, st.idx, st.info, ub)
             slot == [kind |-> list[k].instr.instr_type, cf |-> list[k].cf,
                      ins |-> list[k].ins, w |-> e.w, alu |-> e.alu]
         IN  IF ~e.ok THEN [st EXCEPT !.ok = FALSE]
             ELSE IF e.ret # 0 THEN [st EXCEPT !.info = e.info, !.ret = e.ret]
             ELSE InstrPass(list, k + 1,
                            [st EXCEPT !.dwords = Append(@, slot), !.info = e.info,
                                       !.idx = @ + 1], ub)

\* the whole call: [shader, dwords, info, ret, ok]
ir_shader_assemble(sh, ub) ==
    LET odd == Len(sh.cfs) % 2 # 0
        capok == odd => Len(sh.cfs) < CfsCap
        sh1 == IF odd THEN ir_cf_create(sh, "T_NOP") ELSE sh
        sh2 == shader_resolve(sh1)
        cfok == CfPassOk(sh2.cfs)
        st0 == [dwords |-> CfPass(sh2.cfs), info |-> NewInfo, idx |-> 0, ret |-> 0,
                ok |-> TRUE]
        st == InstrPass(ExecInstrs(sh2.cfs, 1), 1, st0, ub)
    IN  IF ~capok THEN [shader |-> sh, dwords |-> <<>>, info |-> NewInfo, ret |-> 0,
                        ok |-> FALSE]
        ELSE IF ~cfok THEN [shader |-> sh2, dwords |-> <<>>, info |-> NewInfo, ret |-> 0,
                            ok |-> FALSE]
        ELSE [shader |-> sh2, dwords |-> st.dwords, info |-> st.info,
              ret |-> IF st.ret # 0 THEN st.ret ELSE 3 * Len(st.dwords), ok |-> st.ok]

-----------------------------------------------------------------------------
(* What a front end passes to the construction calls *)

Vertex == [NewInstr("T_FETCH") EXCEPT !.opc = "T_VERTEX", !.sign = "T_SIGNED",
                                      !.fmt = 2, !.stride = 12]
Sample == [NewInstr("T_FETCH") EXCEPT !.opc = "T_SAMPLE"]
Alu(vector_opc) == [NewInstr("T_ALU") EXCEPT !.vector_opc = vector_opc]
Alloc == [NewCf("T_ALLOC") EXCEPT !.size = 4, !.alloc_type = "T_COORD"]

\* Clauses: the tag given to ir_cf_create and the fields the caller stores
\* into the clause afterwards (a pre-set addr/cnt, the ALLOC payload).
CfInputs ==
    {NewCf("T_NOP"), Alloc, NewCf("T_EXEC_END")}
    \cup {[NewCf("T_EXEC") EXCEPT !.addr = p[1], !.cnt = p[2]] : p \in {<<0, 0>>, <<7, 3>>}}

\* Instructions: the tag given to ir_instr_create and the caller's stores.
InstrInputs ==
    {[i EXCEPT !.sync = s] : i \in {Vertex, Alu("T_ADDv")}, s \in BOOLEAN} \cup {Sample}

\* the k-th operand given to an instruction of these shaders
RegInputs(instr, k) ==
    IF instr.instr_type = "T_FETCH"
    THEN IF k = 1 THEN {NewReg(1, NULL, {})}
         ELSE IF instr.opc = "T_VERTEX" THEN {NewReg(0, Str(<<"x">>), {})}
         ELSE {NewReg(0, Str(<<"x", "y", "z">>), {})}
    ELSE IF k = 1 THEN {NewReg(2, NULL, {})}
         ELSE IF k = 2 THEN {NewReg(1, NULL, {})}
         ELSE {NewReg(0, NULL, {IR_REG_CONST})}

\* The same with tags outside their enums.
TagCfInputs == {NewCf("T_NOP"), Alloc, NewCf("T_EXEC"), NewCf("T_EXEC_END"), NewCf(T_BAD)}

TagInstrInputs ==
    {Vertex, Alu("T_ADDv"), [Sample EXCEPT !.opc = T_BAD], NewInstr(T_BAD)}

\* Shaders for the register statistics: register numbers on both sides of
\* the width of int, with and without the CONST and EXPORT flags.
StatNums == {0, 1, 33}

StatInstrInputs == {Vertex, Alu("T_ADDv")}

StatRegInputs(instr, k) ==
    IF instr.instr_type = "T_FETCH"
    THEN IF k = 1 THEN {NewReg(n, NULL, {}) : n \in StatNums}
         ELSE {NewReg(n, Str(<<"x">>), {}) : n \in StatNums}
    ELSE IF k = 1
         THEN {NewReg(n, NULL, {}) : n \in StatNums} \cup {NewReg(1, NULL, {IR_REG_EXPORT})}
         ELSE IF k = 2
         THEN {NewReg(n, NULL, {}) : n \in StatNums} \cup {NewReg(1, NULL, {IR_REG_CONST})}
         ELSE {NewReg(0, NULL, {IR_REG_CONST}), NewReg(1, NULL, {})}

-----------------------------------------------------------------------------
(* State machine *)

RECURSIVE TotalInstrs(_, _)
TotalInstrs(cfs, i) ==
    IF i > Len(cfs) THEN 0 ELSE Len(cfs[i].instrs) + TotalInstrs(cfs, i + 1)

NCfs == Len(shader.cfs)
LastCf == shader.cfs[NCfs]
HasInstr == NCfs > 0 /\ Len(LastCf.instrs) > 0
LastInstr == LastCf.instrs[Len(LastCf.instrs)]

\* every instruction has the operands its emitter reads
Complete == HasInstr => Len(LastInstr.regs) = NeedRegs(LastInstr)

\* ir_shader_create: calloc
Init ==
    /\ shader = [cfs |-> <<>>]
    /\ called = [cfs |-> <<>>]
    /\ dwords = <<>>
    /\ info = NewInfo
    /\ ret = 0
    /\ pc = "build"

\* ir_cf_create, then the caller's stores into the new clause
CfCreate(cf) ==
    /\ pc = "build"
    /\ Complete
    /\ NCfs < MaxCfs
    /\ NCfs < CfsCap
    /\ LET sh == ir_cf_create(shader, cf.cf_type)
       IN  shader' = [sh EXCEPT !.cfs[Len(sh.cfs)] =
                         [@ EXCEPT !.addr = cf.addr, !.cnt = cf.cnt,
                                   !.size = cf.size, !.alloc_type = cf.alloc_type]]
    /\ UNCHANGED <<called, dwords, info, ret, pc>>

\* ir_instr_create on the clause created last, then the caller's stores
InstrCreate(instr, bound) ==
    /\ pc = "build"
    /\ Complete
    /\ NCfs > 0
    /\ IsExec(LastCf)
    /\ Len(LastCf.instrs) < MaxInstrs
    /\ Len(LastCf.instrs) < InstrsCap
    /\ TotalInstrs(shader.cfs, 1) < bound
    /\ shader' = ir_instr_create(shader, NCfs, instr)
    /\ UNCHANGED <<called, dwords, info, ret, pc>>

\* ir_reg_create on the instruction created last
RegCreate(reg) ==
    /\ pc = "build"
    /\ HasInstr
    /\ Len(LastInstr.regs) < NeedRegs(LastInstr)
    /\ Len(LastInstr.regs) < RegsCap
    /\ reg.num <= REG_MASK
    /\ shader' = ir_reg_create(shader, NCfs, Len(LastCf.instrs), reg)
    /\ UNCHANGED <<called, dwords, info, ret, pc>>

\* ir_shader_assemble(shader, dwords, sizedwords, info)
Assemble(ub) ==
    /\ pc = "build"
    /\ Complete
    /\ \E r \in {ir_shader_assemble(shader, ub)} :
           /\ shader' = r.shader
           /\ dwords' = r.dwords
           /\ info' = r.info
           /\ ret' = r.ret
           /\ pc' = IF r.ok THEN "done" ELSE "abort"
    /\ called' = shader

\* the operand position ir_reg_create fills next
NextReg == Len(LastInstr.regs) + 1

Next ==
    \/ \E cf \in CfInputs : CfCreate(cf)
    \/ \E instr \in InstrInputs : InstrCreate(instr, MaxTotalInstrs)
    \/ \E reg \in (IF HasInstr THEN RegInputs(LastInstr, NextReg) ELSE {}) : RegCreate(reg)
    \/ \E ub \in ShiftOutcomes : Assemble(ub)

Spec == Init /\ [][Next]_vars

\* shaders that may carry out-of-range tags
NextTags ==
    \/ \E cf \in TagCfInputs : CfCreate(cf)
    \/ \E instr \in TagInstrInputs : InstrCreate(instr, MaxTotalInstrs)
    \/ \E reg \in (IF HasInstr THEN RegInputs(LastInstr, NextReg) ELSE {}) : RegCreate(reg)
    \/ \E ub \in ShiftOutcomes : Assemble(ub)

SpecTags == Init /\ [][NextTags]_vars

\* one EXEC_END clause whose instructions name the registers of StatNums
InitStats ==
    /\ shader = ir_cf_create([cfs |-> <<>>], "T_EXEC_END")
    /\ called = [cfs |-> <<>>]
    /\ dwords = <<>>
    /\ info = NewInfo
    /\ ret = 0
    /\ pc = "build"

NextStats ==
    \/ \E instr \in StatInstrInputs : InstrCreate(instr, MaxStatInstrs)
    \/ \E reg \in (IF HasInstr THEN StatRegInputs(LastInstr, NextReg) ELSE {}) : RegCreate(reg)
    \/ \E ub \in ShiftOutcomes : Assemble(ub)

SpecStats == InitStats /\ [][NextStats]_vars

\* cf_emit on its own: a pair of clauses whose fields take the ends and the
\* inside of each field's range, and one value past the end of addr
ExecPayloads ==
    {[NewCf(t) EXCEPT !.addr = a, !.cnt = c, !.sequence = q] :
        t \in {"T_EXEC", "T_EXEC_END"}, a \in {0, 5, 4095, 4096}, c \in {0, 2, 15},
        q \in {0, 9, 65535}}

AllocPayloads ==
    {[NewCf("T_ALLOC") EXCEPT !.size = z, !.alloc_type = t] :
        z \in {0, 4, 4095}, t \in {"T_COORD", "T_MEMORY"}}

CfPairInputs == {NewCf("T_NOP")} \cup ExecPayloads \cup AllocPayloads

InitCf ==
    /\ \E cf1 \in CfPairInputs, cf2 \in CfPairInputs : shader = [cfs |-> <<cf1, cf2>>]
    /\ called = [cfs |-> <<>>]
    /\ dwords = <<>>
    /\ info = NewInfo
    /\ ret = 0
    /\ pc = "build"

\* cf_emit(cf1, cf2, dwords)
CfEmit ==
    /\ pc = "build"
    /\ LET cf1 == shader.cfs[1]
           cf2 == shader.cfs[2]
       IN  IF cf_emit_ok(cf1, cf2)
           THEN /\ dwords' = <<[kind |-> "cf", cf |-> 1, ins |-> 0,
                                w |-> cf_emit(cf1, cf2), alu |-> <<>>]>>
                /\ pc' = "done"
           ELSE /\ dwords' = <<>>
                /\ pc' = "abort"
    /\ ret' = 0
    /\ called' = shader
    /\ UNCHANGED <<shader, info>>

NextCf == CfEmit

SpecCf == InitCf /\ [][NextCf]_vars

\* reg_fetch_dst_swiz through the assembler: one EXEC_END clause holding one
\* VERTEX fetch whose destination swizzle is absent or any string of four
\* characters of the alphabet
SwizAlphabet == {"x", "y", "z", "w", "0", "1", "_"}

SwizInputs ==
    {NULL} \cup {Str(<<a, b, c, d>>) : a \in SwizAlphabet, b \in SwizAlphabet,
                                       c \in SwizAlphabet, d \in SwizAlphabet}

SwizRegInputs(k) ==
    IF k = 1 THEN {NewReg(1, sw, {}) : sw \in SwizInputs}
    ELSE {NewReg(0, Str(<<"x">>), {})}

InitSwiz ==
    /\ shader = ir_instr_create(ir_cf_create([cfs |-> <<>>], "T_EXEC_END"), 1, Vertex)
    /\ called = [cfs |-> <<>>]
    /\ dwords = <<>>
    /\ info = NewInfo
    /\ ret = 0
    /\ pc = "build"

NextSwiz ==
    \/ \E reg \in (IF HasInstr THEN SwizRegInputs(NextReg) ELSE {}) : RegCreate(reg)
    \/ \E ub \in ShiftOutcomes : Assemble(ub)

SpecSwiz == InitSwiz /\ [][NextSwiz]_vars


\* ALU instructions with and without a third source and a scalar half, built
\* operand by operand in the order instr_emit_alu reads them.
AluInstrInputs ==
    {[Alu(v) EXCEPT !.scalar_opc = sc] : v \in {"T_ADDv", "T_MULADDv"},
                                         sc \in {"T_NONE", "T_ADDs"}}

AluRegInputs(instr, k) ==
    IF k = 1 \/ (instr.scalar_opc # "T_NONE" /\ k = NeedRegs(instr) - 1)
    THEN {NewReg(2, NULL, {})}
    ELSE {NewReg(1, NULL, {}), NewReg(0, NULL, {IR_REG_CONST}),
          NewReg(3, Str(<<"w", "z", "y", "x">>), {IR_REG_ABS})}

\* The array instr->regs is declared in ir.h: its capacity is the documented
\* one, or one more where the header leaves room for a sixth operand.
RegsCaps == {RegsCap, RegsCap + 1}

\* ir_reg_create with its capacity assert: a call on a full array fails it
AluRegCreate(reg, cap) ==
    /\ pc = "build"
    /\ HasInstr
    /\ Len(LastInstr.regs) < NeedRegs(LastInstr)
    /\ reg.num <= REG_MASK
    /\ IF Len(LastInstr.regs) < cap
       THEN /\ shader' = ir_reg_create(shader, NCfs, Len(LastCf.instrs), reg)
            /\ pc' = pc
       ELSE /\ shader' = shader
            /\ pc' = "abort"
    /\ UNCHANGED <<called, dwords, info, ret>>

NextAlu ==
    \/ \E instr \in AluInstrInputs : InstrCreate(instr, 1)
    \/ \E reg \in (IF HasInstr THEN AluRegInputs(LastInstr, NextReg) ELSE {}) :
           \E cap \in RegsCaps : AluRegCreate(reg, cap)
    \/ \E ub \in ShiftOutcomes : Assemble(ub)

SpecAlu == InitStats /\ [][NextAlu]_vars

\* The caller's buffer: capacities below, at and between the sizes of the
\* programs these shaders assemble to.
BufSizes == {0, 4, 9}

BufInstrInputs == {Vertex, Alu("T_ADDv")}

\* What a store past the end of the buffer does is undefined: the words land
\* in the memory after it and the call goes on ("overrun"), or the store
\* faults ("fault").
OobOutcomes == {"overrun", "fault"}

\* ir_shader_assemble(shader, dwords, sizedwords, info): sizedwords is not
\* read, so every slot is stored whatever the capacity; dwords lists the
\* slots stored, those past the capacity included
AssembleInto(sizedwords, ub, oob) ==
    /\ pc = "build"
    /\ Complete
    /\ \E r \in {ir_shader_assemble(shader, ub)} :
           /\ shader' = r.shader
           /\ dwords' = r.dwords
           /\ info' = r.info
           /\ ret' = r.ret
           /\ pc' = IF ~r.ok THEN "abort"
                    ELSE IF 3 * Len(r.dwords) > sizedwords /\ oob = "fault" THEN "abort"
                    ELSE "done"
    /\ called' = [cfs |-> shader.cfs, sizedwords |-> sizedwords]

NextBuf ==
    \/ \E cf \in CfInputs : CfCreate(cf)
    \/ \E instr \in BufInstrInputs : InstrCreate(instr, MaxTotalInstrs)
    \/ \E reg \in (IF HasInstr THEN RegInputs(LastInstr, NextReg) ELSE {}) : RegCreate(reg)
    \/ \E n \in BufSizes, ub \in ShiftOutcomes, oob \in OobOutcomes : AssembleInto(n, ub, oob)

SpecBuf == Init /\ [][NextBuf]_vars

-----------------------------------------------------------------------------
(* Properties *)

CeilHalf(n) == (n + 1) \div 2

\* the instructions held by the EXEC/EXEC_END clauses before clause i
RECURSIVE ExecCountBefore(_, _)
ExecCountBefore(cfs, i) ==
    IF i <= 1 THEN 0
    ELSE (IF IsExec(cfs[i - 1]) THEN Len(cfs[i - 1].instrs) ELSE 0)
         + ExecCountBefore(cfs, i - 1)

ExecCount(cfs) == ExecCountBefore(cfs, Len(cfs) + 1)

\* bit k of a natural
NatBit(v, k) == (v \div Pow2(k)) % 2

Returned == pc = "done"
Succeeded == pc = "done" /\ ret >= 0

\* C1: when ir_shader_assemble succeeds it returns 3 * (ceil(c/2) + n), c the
\* clause count at the call and n the instructions of the EXEC/EXEC_END
\* clauses, which is the number of words written.
C1_WordCount ==
    Succeeded =>
        /\ ret = 3 * (CeilHalf(Len(called.cfs)) + ExecCount(called.cfs))
        /\ ret = 3 * Len(dwords)

C1_Witness ==
    /\ Succeeded
    /\ Len(called.cfs) = 1
    /\ ExecCount(called.cfs) = 2
    /\ ret = 9

\* C2: after ir_shader_assemble every EXEC/EXEC_END clause has cnt equal to
\* its instruction count and addr equal to half the aligned clause count plus
\* the instructions of the EXEC/EXEC_END clauses before it, whatever the
\* caller had pre-set; addr is the slot of the buffer that holds the
\* clause's first instruction.
C2_ExecAddrCnt ==
    Returned =>
        \A i \in 1..Len(called.cfs) :
            IsExec(called.cfs[i]) =>
                LET cf == shader.cfs[i]
                    start == CeilHalf(Len(called.cfs)) + ExecCountBefore(called.cfs, i)
                IN  /\ cf.cnt = Len(called.cfs[i].instrs)
                    /\ cf.addr = start
                    /\ (Succeeded /\ Len(cf.instrs) > 0) =>
                           /\ dwords[start + 1].cf = i
                           /\ dwords[start + 1].ins = 1
                           /\ dwords[start + 1].kind = cf.instrs[1].instr_type

C2_Witness ==
    /\ Succeeded
    /\ Len(called.cfs) = 2
    /\ IsExec(called.cfs[1]) /\ Len(called.cfs[1].instrs) = 1
    /\ called.cfs[2].addr = 7 /\ called.cfs[2].cnt = 3
    /\ shader.cfs[2].addr = 2 /\ shader.cfs[2].cnt = 1

\* C3: after the resolver, in every EXEC/EXEC_END clause of n instructions,
\* bit 2k of sequence is 1 iff instruction k is a FETCH and bit 2k+1 is 1 iff
\* instruction k has sync set, for k in 0..n-1, and no bit from 2n up is set.
C3_SequenceBits ==
    Returned =>
        \A i \in 1..Len(shader.cfs) :
            IsExec(shader.cfs[i]) =>
                LET cf == shader.cfs[i]
                    n == Len(cf.instrs)
                IN  /\ \A k \in 0..(n - 1) :
                          /\ NatBit(cf.sequence, 2 * k) = 1
                                <=> cf.instrs[k + 1].instr_type = "T_FETCH"
                          /\ NatBit(cf.sequence, 2 * k + 1) = 1 <=> cf.instrs[k + 1].sync
                    /\ cf.sequence \div Pow2(2 * n) = 0

C3_Witness ==
    /\ Returned
    /\ \E i \in 1..Len(shader.cfs) :
          /\ IsExec(shader.cfs[i])
          /\ Len(shader.cfs[i].instrs) = 2
          /\ shader.cfs[i].instrs[1].instr_type = "T_ALU" /\ ~shader.cfs[i].instrs[1].sync
          /\ shader.cfs[i].instrs[2].instr_type = "T_FETCH" /\ shader.cfs[i].instrs[2].sync
          /\ shader.cfs[i].sequence = 12

\* the front end's fields of a clause, which the assembler leaves alone
Payload(cf) == [cf EXCEPT !.addr = 0, !.cnt = 0, !.sequence = 0]

\* C4: on an odd clause count ir_shader_assemble appends exactly one NOP
\* clause, so the count is even for the resolver and the emitters and the
\* last CF pair carries op 0 for its second clause; on an even count it
\* appends nothing; the clauses it was given keep their order and positions.
C4_NopAppend ==
    Returned =>
        LET n0 == Len(called.cfs)
            n1 == Len(shader.cfs)
        IN  /\ n0 % 2 = 1 =>
                  /\ n1 = n0 + 1
                  /\ shader.cfs[n1] = NewCf("T_NOP")
                  /\ Field(dwords[n1 \div 2].w[3], 28, 4) = 0
            /\ n0 % 2 = 0 => n1 = n0
            /\ n1 % 2 = 0
            /\ \A i \in 1..n0 : Payload(shader.cfs[i]) = Payload(called.cfs[i])
            /\ \A k \in 1..(n1 \div 2) : dwords[k].kind = "cf" /\ dwords[k].cf = 2 * k - 1

C4_Witness ==
    /\ Returned
    /\ Len(called.cfs) = 1
    /\ IsExec(called.cfs[1])
    /\ Len(shader.cfs) = 2
    /\ shader.cfs[2].cf_type = "T_NOP"

\* the instructions ir_shader_assemble was given, in the order it emits them
Program == ExecInstrs(called.cfs, 1)

InEnum(instr) ==
    /\ instr.instr_type \in InstrTags
    /\ instr.instr_type = "T_FETCH" => instr.opc \in FetchOpcs

HasBadTag(cfs) ==
    \/ \E i \in 1..Len(cfs) : cfs[i].cf_type \notin CfTags
    \/ \E i \in 1..Len(cfs) : \E j \in 1..Len(cfs[i].instrs) : ~InEnum(cfs[i].instrs[j])

\* C7: a clause tag outside {NOP, EXEC, EXEC_END, ALLOC}, an instruction tag
\* outside {FETCH, ALU} or a FETCH opcode outside {VERTEX, SAMPLE} makes
\* ir_shader_assemble return a negative code instead of a word count.
C7_BadTagFatal == (Returned /\ HasBadTag(called.cfs)) => ret < 0

\* the slots of the buffer that hold FETCH instructions, and the VERTEX ones
FetchSlots == {k \in 1..Len(dwords) : dwords[k].kind = "T_FETCH"}
IsVertexSlot(k) == shader.cfs[dwords[k].cf].instrs[dwords[k].ins].opc = "T_VERTEX"

\* C10: in an assembled shader every VERTEX fetch has exactly one of word[0]
\* bit 27 and word[1] bit 30 set; the first FETCH emitted has bit 27 set and
\* bit 30 clear, and every VERTEX fetch other than the first FETCH has bit 30
\* set and bit 27 clear, however many ALU instructions or clauses precede it.
C10_FirstFetchBit ==
    Succeeded =>
        \A k \in FetchSlots :
            LET first == \A m \in FetchSlots : k <= m
                b27 == Bit(dwords[k].w[1], 27)
                b30 == Bit(dwords[k].w[2], 30)
            IN  /\ IsVertexSlot(k) => b27 + b30 = 1
                /\ first => b27 = 1 /\ b30 = 0
                /\ (IsVertexSlot(k) /\ ~first) => b30 = 1 /\ b27 = 0

\* operands of an instruction by role, as instr_emit_fetch/instr_emit_alu
\* take them from instr->regs
DstIdx(instr) ==
    IF instr.instr_type = "T_FETCH" THEN {1}
    ELSE {1} \cup (IF instr.scalar_opc # "T_NONE"
                   THEN {(IF instr.vector_opc = "T_MULADDv" THEN 5 ELSE 4)}
                   ELSE {})

SrcIdx(instr) == (1..Len(instr.regs)) \ DstIdx(instr)

\* registers of the register file: neither CONST nor EXPORT
Gpr(reg) == reg.flags \cap {IR_REG_CONST, IR_REG_EXPORT} = {}

Written(instr) == {instr.regs[k].num : k \in {d \in DstIdx(instr) : Gpr(instr.regs[d])}}
Read(instr) == {instr.regs[k].num : k \in {d \in SrcIdx(instr) : Gpr(instr.regs[d])}}

\* C5: after ir_shader_assemble, for every num in 0..0x3F, bit num of
\* regs_written is set iff some emitted instruction has a destination operand
\* of that number with neither the CONST nor the EXPORT flag.
C5_RegsWritten ==
    Succeeded =>
        \A num \in 0..REG_MASK :
            num \in info.regs_written
                <=> \E q \in 1..Len(Program) : num \in Written(Program[q].instr)

\* num is read by an instruction that no write of num precedes; an
\* instruction reads its sources before it writes its destination
ReadBeforeWritten(num) ==
    \E q \in 1..Len(Program) :
        /\ num \in Read(Program[q].instr)
        /\ \A p \in 1..(q - 1) : num \notin Written(Program[p].instr)

Operands == UNION {Read(Program[q].instr) \cup Written(Program[q].instr) : q \in 1..Len(Program)}

ReadUnshadowed(num) ==
    \E q \in 1..Len(Program) :
        /\ num \in Read(Program[q].instr)
        /\ \A p \in 1..q : \A d \in Written(Program[p].instr) : d % 32 # num % 32

\* num is read by an instruction whose first destination is another register
\* and that no write of num precedes, or num is 32 or more
ReadUnwritten(num) ==
    \E q \in 1..Len(Program) :
        /\ num \in Read(Program[q].instr)
        /\ num < 32 =>
              /\ \A p \in 1..(q - 1) : num \notin Written(Program[p].instr)
              /\ ~(Gpr(Program[q].instr.regs[1]) /\ Program[q].instr.regs[1].num = num)

C5_FailingInput ==
    /\ Succeeded
    /\ \E q \in 1..Len(Program) : 33 \in Written(Program[q].instr)
    /\ 33 \notin info.regs_written

\* the three words cf_emit produced, and the pair it was given
CfWords == dwords[1].w
Cf1 == called.cfs[1]
Cf2 == called.cfs[2]

OpCode(cf) ==
    CASE cf.cf_type = "T_NOP" -> 0 [] cf.cf_type = "T_EXEC" -> 1
      [] cf.cf_type = "T_EXEC_END" -> 2 [] cf.cf_type = "T_ALLOC" -> 12

TypeNibble(cf) == IF cf.alloc_type = "T_COORD" THEN 2 ELSE 4

IsAlloc(cf) == cf.cf_type = "T_ALLOC"

\* C8: cf_emit(cf1, cf2) puts cf1's op in word1 bits 12..15 and cf2's op in
\* word2 bits 28..31; an EXEC/EXEC_END cf1 has addr in word0 0..11, cnt in
\* word0 12..15, sequence in word0 16..31; an EXEC/EXEC_END cf2 has addr in
\* word1 16..27, cnt in word1 28..31, sequence in word2 0..15; an ALLOC cf1
\* has size in word0 0..11 and the type nibble (2 if COORD else 4) in word1
\* 8..11; an ALLOC cf2 has size in word1 16..27 and the nibble in word2
\* 24..27; every other bit is 0, so no field of one clause alters a field of
\* the other when the fields are within their widths.
C8_CfLayout ==
    pc = "done" =>
        /\ Field(CfWords[2], 12, 4) = OpCode(Cf1)
        /\ Field(CfWords[3], 28, 4) = OpCode(Cf2)
        /\ IsExec(Cf1) => /\ Field(CfWords[1], 0, 12) = Cf1.addr
                          /\ Field(CfWords[1], 12, 4) = Cf1.cnt
                          /\ Field(CfWords[1], 16, 16) = Cf1.sequence
        /\ IsExec(Cf2) => /\ Field(CfWords[2], 16, 12) = Cf2.addr
                          /\ Field(CfWords[2], 28, 4) = Cf2.cnt
                          /\ Field(CfWords[3], 0, 16) = Cf2.sequence
        /\ IsAlloc(Cf1) => /\ Field(CfWords[1], 0, 12) = Cf1.size
                           /\ Field(CfWords[2], 8, 4) = TypeNibble(Cf1)
        /\ IsAlloc(Cf2) => /\ Field(CfWords[2], 16, 12) = Cf2.size
                           /\ Field(CfWords[3], 24, 4) = TypeNibble(Cf2)
        /\ CfWords[1] \subseteq (IF IsExec(Cf1) THEN 0..31 ELSE IF IsAlloc(Cf1) THEN 0..11 ELSE {})
        /\ CfWords[2] \subseteq (12..15) \cup (IF IsAlloc(Cf1) THEN 8..11 ELSE {})
                                 \cup (IF IsExec(Cf2) THEN 16..31 ELSE IF IsAlloc(Cf2) THEN 16..27 ELSE {})
        /\ CfWords[3] \subseteq (28..31) \cup (IF IsExec(Cf2) THEN 0..15 ELSE IF IsAlloc(Cf2) THEN 24..27 ELSE {})

\* an ALLOC of COORD, size 4 paired with an EXEC whose fields are all ones
C8_Witness ==
    /\ pc = "done"
    /\ IsAlloc(Cf1) /\ Cf1.size = 4 /\ Cf1.alloc_type = "T_COORD"
    /\ Cf2.cf_type = "T_EXEC" /\ Cf2.addr = 4095 /\ Cf2.cnt = 15 /\ Cf2.sequence = 65535
    /\ CfWords = <<{2}, {9, 14, 15} \cup (16..31), (0..15) \cup {28}>>

\* the channel codes of the FETCH destination alphabet
DstCode(c) ==
    CASE c = "x" -> 0 [] c = "y" -> 1 [] c = "z" -> 2 [] c = "w" -> 3
      [] c = "0" -> 4 [] c = "1" -> 5 [] c = "_" -> 7

\* the destination operand of the fetch that was assembled, and its encoding:
\* dwords[1] bits 0..11 of the instruction's slot
FetchDst == called.cfs[1].instrs[1].regs[1]
DstSwiz == Field(dwords[2].w[2], 0, 12)

\* C9 as claimed: an absent swizzle string encodes to the value the encoder
\* produces for the explicit string "xyz_".
C9_Original ==
    (Succeeded /\ FetchDst.swizzle.null)
        => DstSwiz = reg_fetch_dst_swiz(NewReg(1, Str(<<"x", "y", "z", "_">>), {}))

\* C9 amended: a FETCH destination swizzle is encoded with 3 bits per
\* channel, channel i in bits [3i, 3i+2], using x=0, y=1, z=2, w=3, '0'=4,
\* '1'=5, '_'=7; when the string is absent the encoded value is 0x688, the
\* identity selection with no channel masked, the value the encoder produces
\* for "xyzw" ("xyz_" encodes to 0xE88).
C9_FetchDstSwiz ==
    Succeeded =>
        /\ ~FetchDst.swizzle.null =>
              \A i \in 0..3 :
                  Field(dwords[2].w[2], 3 * i, 3) = DstCode(FetchDst.swizzle.chars[i + 1])
        /\ FetchDst.swizzle.null =>
              /\ DstSwiz = 1672
              /\ DstSwiz = reg_fetch_dst_swiz(NewReg(1, Str(<<"x", "y", "z", "w">>), {}))
        /\ reg_fetch_dst_swiz(NewReg(1, Str(<<"x", "y", "z", "_">>), {})) = 3720

\* a fetch with no destination swizzle was assembled to 0x688
C9_Witness == Succeeded /\ FetchDst.swizzle.null /\ DstSwiz = 1672

\* the ALU instruction being built or assembled is MULADDv with a scalar half
MulAddScalar(sh) ==
    /\ Len(sh.cfs) > 0 /\ Len(sh.cfs[1].instrs) > 0
    /\ sh.cfs[1].instrs[1].vector_opc = "T_MULADDv"
    /\ sh.cfs[1].instrs[1].scalar_opc # "T_NONE"

\* C11: an ALU instruction with vector opcode MULADDv and a scalar opcode,
\* its operands created by ir_reg_create in the order dst, src3, src1, src2,
\* sdst, src3, is built within the register capacity and emitted without a
\* failed assertion, the src3 fields of the output being those of the src3
\* operand.
C11_MulAddScalar ==
    /\ MulAddScalar(shader) => pc # "abort"
    /\ (pc # "build" /\ MulAddScalar(called)) =>
          /\ Succeeded
          /\ dwords[2].alu.src3 = SrcFields(called.cfs[1].instrs[1].regs[2])

\* the six operands were created and the emitter's assert on src3 failed
C11_AssertFails ==
    /\ pc = "abort"
    /\ MulAddScalar(called)
    /\ Len(called.cfs[1].instrs[1].regs) = 6

\* C12: read-before-write detection follows execution order: when a
\* register-file register num is read as a source operand by an instruction
\* and no earlier instruction wrote it, max_input_reg >= num after assembly,
\* also when that same instruction names num as its destination.
C12_ReadFirst ==
    Succeeded =>
        \A q \in 1..Len(Program) : \A num \in Read(Program[q].instr) :
            (\A p \in 1..(q - 1) : num \notin Written(Program[p].instr))
                => info.max_input_reg >= num

\* one instruction reads and writes R1 and max_input_reg stays below 1
C12_SameInstr ==
    /\ Succeeded
    /\ Len(Program) = 1
    /\ 1 \in Read(Program[1].instr) /\ 1 \in Written(Program[1].instr)
    /\ info.max_input_reg < 1

\* the words of the buffer the call stored to: slot k holds words 3k-3 .. 3k-1
WordsWritten == 0..(3 * Len(dwords) - 1)

\* C13: ir_shader_assemble never writes outside the caller's buffer: for
\* every shader and every capacity sizedwords the words written are at
\* indices 0..sizedwords-1 and the returned count does not exceed sizedwords.
C13_InBuffer ==
    Returned =>
        /\ WordsWritten \subseteq 0..(called.sizedwords - 1)
        /\ ret <= called.sizedwords

\* a shader of one clause assembled into a buffer of no words
C13_Overrun ==
    /\ Returned
    /\ Len(called.cfs) = 1
    /\ called.sizedwords = 0
    /\ ret = 3 /\ WordsWritten = 0..2

====
